---- MODULE Spec2Model ----
(***************************************************************************)
(* State-manager of the BLDC controller (BLDC_sm.c): the commutation       *)
(* timing ramp, the closed-loop corrector, the speed setpoint gate, the    *)
(* reset entry point and the control task BL_State_Ctrl.                   *)
(***************************************************************************)
EXTENDS Integers, FiniteSets, Sequences, TLC

VARIABLES
  BL_comm_period,  \* static uint16_t BL_comm_period
  BL_motor_speed,  \* static uint16_t BL_motor_speed
  BL_optimer,      \* static uint16_t BL_optimer
  BL_opstate,      \* static BL_State_T BL_opstate
  atimer,          \* static uint16_t atimer (ARMING branch of BL_State_Ctrl)
  fault_counter,   \* static uint16_t fault_counter (CLS_LOOP branch)
  fault_status,    \* status word of the fault manager, as the set of faults set
  pwm_dutycycle,   \* last value handed to PWM_set_dutycycle
  call             \* the direct call of a helper made last (unit specifications),
                   \* Periodic_task's position (background-task specification)

vars == << BL_comm_period, BL_motor_speed, BL_optimer, BL_opstate, atimer,
           fault_counter, fault_status, pwm_dutycycle, call >>

(***************************************************************************)
(* Program constants                                                       *)
(***************************************************************************)
U16_MAX == 65535
U16_MOD == U16_MAX + 1

\* precision is 1/TIM2_PWM_PD = 0.4% per count
TIM2_PWM_PD == 250

\* PWM_GET_PULSE_COUNTS: percent (given in tenths of a percent) to counts
PWM_GET_PULSE_COUNTS(pcnt10) == (pcnt10 * TIM2_PWM_PD) \div 1000

PWM_PD_ARMING  == PWM_GET_PULSE_COUNTS(85)
PWM_PD_ALIGN   == PWM_GET_PULSE_COUNTS(250)
PWM_PD_RAMPUP  == PWM_GET_PULSE_COUNTS(140)
PWM_PD_STARTUP == PWM_GET_PULSE_COUNTS(120)
PWM_PD_SHUTOFF == PWM_GET_PULSE_COUNTS(90)

\* commutation periods, for CTIME_SCALAR = 1 (the hexadecimal values the
\* source notes beside them: $1600, $06E0, $074A)
BL_CT_RAMP_START == 5632
BL_CT_RAMP_END   == 1760
BL_CT_STARTUP    == 1866

ERROR_LIMIT == 50
ERROR_MAX == ERROR_LIMIT
ERROR_MIN == (-1) * ERROR_LIMIT
PROP_GAIN == 10

\* (uint16_t)(1.5 * CTRL_RATEM * CTIME_SCALAR), CTRL_RATEM = 4
BL_ONE_RAMP_UNIT == 6

BL_TIME_ALIGN == 200

ARMING_TIME_TOTAL == 2304
ARMING_TIME_DELAY == 512
ARMING_TIME_MASK  == 448
ARMING_BL_TIMING  == 16

CL_FAULT_CNTR == 2000
FAULT_DECR == 1

BL_State_T == { "BL_ARMING", "BL_STOPPED", "BL_ALIGN", "BL_RAMPUP",
                "BL_OPN_LOOP", "BL_CLS_LOOP", "BL_NONE" }

(***************************************************************************)
(* 16-bit arithmetic                                                       *)
(***************************************************************************)
\* conversion of an int result to uint16_t
U16(x) == x % U16_MOD

\* C division of a signed value by a positive one: truncates toward zero
TruncDivFloor(a, b) == a \div b

TruncDiv(a, b) == IF a >= 0 THEN a \div b ELSE -((-a) \div b)

(***************************************************************************)
(* timing_ramp_control: the period it hands to BL_set_timing               *)
(***************************************************************************)
\* the ramp without the clamp at the target
timing_ramp_controlNoClamp(current_setpoint, target_setpoint) ==
  IF current_setpoint > target_setpoint
  THEN U16(current_setpoint - BL_ONE_RAMP_UNIT)
  ELSE IF current_setpoint < target_setpoint
  THEN U16(current_setpoint + BL_ONE_RAMP_UNIT)
  ELSE current_setpoint

timing_ramp_control(current_setpoint, target_setpoint) ==
  IF current_setpoint > target_setpoint
  THEN LET u16 == U16(current_setpoint - BL_ONE_RAMP_UNIT)
       IN  IF u16 < target_setpoint THEN target_setpoint ELSE u16
  ELSE IF current_setpoint < target_setpoint
  THEN LET u16 == U16(current_setpoint + BL_ONE_RAMP_UNIT)
       IN  IF u16 > target_setpoint THEN target_setpoint ELSE u16
  ELSE current_setpoint

(***************************************************************************)
(* BL_cl_control.  avail is Seq_get_timing_error_p(), timing_error is      *)
(* Seq_get_timing_error(); period is BL_comm_period at the call.  The      *)
(* result is the return value and the period after the call.               *)
(***************************************************************************)
cl_in_limitsWide(timing_error) ==
  (timing_error >= ERROR_MIN) /\ (timing_error <= ERROR_MAX)

cl_in_limits(timing_error) ==
  (timing_error > ERROR_MIN) /\ (timing_error < ERROR_MAX)

BL_cl_control(period, current_setpoint, avail, timing_error) ==
  IF avail /\ cl_in_limits(timing_error)
  THEN [ ret    |-> TRUE,
         period |-> U16(current_setpoint + TruncDiv(timing_error, PROP_GAIN)) ]
  ELSE [ ret |-> FALSE, period |-> period ]


(***************************************************************************)
(* Bitwise AND of two naturals (atimer & ARMING_TIME_MASK)                 *)
(***************************************************************************)
RECURSIVE BitAnd(_, _)
BitAnd(a, b) ==
  IF a = 0 \/ b = 0 THEN 0
  ELSE (IF a % 2 = 1 /\ b % 2 = 1 THEN 1 ELSE 0) + 2 * BitAnd(a \div 2, b \div 2)

(***************************************************************************)
(* Inputs of the environment and the bounds put on it                      *)
(***************************************************************************)
\* m_stop is issued while the arming timer is at most MaxArmKey, or once the
\* arming timer has run out (the timer keeps its value after ARMING)
MaxArmKey == 0
\* background-task calls (BL_set_speed, BL_reset, Faultm_upd) arrive while
\* the fault counter is within MaxKeyDepth of its maximum or of zero
MaxKeyDepth == 0
\* a timing-error sample is available in OPEN_LOOP during the first
\* MaxOlDepth steps of the ramp to BL_CT_STARTUP, or once the ramp is done
MaxOlDepth == 0
\* a nonzero correction is applied in CLOSED_LOOP while it leaves the period
\* within MaxDrift counts of BL_CT_STARTUP
MaxDrift == 1

\* values of ui_mspeed_counts
SpeedInputs == { PWM_PD_SHUTOFF, PWM_PD_SHUTOFF + 1,
                 PWM_PD_STARTUP, PWM_PD_STARTUP + 1 }

\* values of Seq_get_timing_error() offered to the control task
ErrInputs == { ERROR_MIN, -PROP_GAIN, -(PROP_GAIN - 1), ERROR_MAX }

NoCall == [ fn |-> "none" ]

KeyEnabled ==
  /\ atimer <= MaxArmKey \/ atimer = ARMING_TIME_TOTAL
  /\ \/ fault_counter >= CL_FAULT_CNTR - MaxKeyDepth
     \/ fault_counter <= MaxKeyDepth

SampleOffered(avail, timing_error) ==
  /\ (BL_opstate = "BL_OPN_LOOP" /\ avail)
       => \/ BL_comm_period <= BL_CT_RAMP_END + MaxOlDepth * BL_ONE_RAMP_UNIT
          \/ BL_comm_period = BL_CT_STARTUP
  /\ (BL_opstate = "BL_CLS_LOOP" /\ avail /\ cl_in_limits(timing_error)
        /\ TruncDiv(timing_error, PROP_GAIN) # 0)
       => LET p == U16(BL_comm_period + TruncDiv(timing_error, PROP_GAIN))
          IN  /\ p >= BL_CT_STARTUP - MaxDrift
              /\ p <= BL_CT_STARTUP + MaxDrift

(***************************************************************************)
(* BL_stop, BL_reset, BL_set_speed                                         *)
(***************************************************************************)
\* the value BL_stop leaves in BL_motor_speed (All_phase_stop acts on the
\* driver only)
BL_stop_speed == 0

\* Faultm_init: no fault set
Faultm_init == {}

\* what BL_reset reads and writes, as a record
ResetState ==
  [ BL_motor_speed |-> BL_motor_speed, BL_comm_period |-> BL_comm_period,
    fault_status |-> fault_status, BL_opstate |-> BL_opstate ]

\* BL_reset without the call of Faultm_init
BL_reset_resultNoInit(s) ==
  [ s EXCEPT !.BL_motor_speed = BL_stop_speed,
             !.BL_comm_period = U16_MAX,
             !.BL_opstate = "BL_STOPPED" ]

\* the values BL_reset leaves: BL_stop, BL_set_timing(U16_MAX), Faultm_init,
\* BL_set_opstate(BL_STOPPED)
BL_reset_result(s) ==
  [ s EXCEPT !.BL_motor_speed = BL_stop_speed,
             !.BL_comm_period = U16_MAX,
             !.fault_status = Faultm_init,
             !.BL_opstate = "BL_STOPPED" ]

BL_reset_writes ==
  LET r == BL_reset_result(ResetState)
  IN  /\ BL_motor_speed' = r.BL_motor_speed
      /\ BL_comm_period' = r.BL_comm_period
      /\ fault_status' = r.fault_status
      /\ BL_opstate' = r.BL_opstate

BL_reset ==
  /\ BL_reset_writes
  /\ UNCHANGED << BL_optimer, atimer, fault_counter, pwm_dutycycle, call >>

\* BL_set_speed with the startup threshold included in the start band
set_speed_resultGe(speed, ui_mspeed_counts) ==
  IF ui_mspeed_counts > PWM_PD_SHUTOFF
  THEN IF (ui_mspeed_counts >= PWM_PD_STARTUP) \/ (0 # speed)
       THEN ui_mspeed_counts
       ELSE speed
  ELSE BL_stop_speed

\* BL_set_speed with the shutoff threshold itself taken as a running speed
set_speed_resultShutoffGe(speed, ui_mspeed_counts) ==
  IF ui_mspeed_counts >= PWM_PD_SHUTOFF
  THEN IF (ui_mspeed_counts > PWM_PD_STARTUP) \/ (0 # speed)
       THEN ui_mspeed_counts
       ELSE speed
  ELSE BL_stop_speed

\* the value BL_set_speed leaves in BL_motor_speed
set_speed_result(speed, ui_mspeed_counts) ==
  IF ui_mspeed_counts > PWM_PD_SHUTOFF
  THEN IF (ui_mspeed_counts > PWM_PD_STARTUP) \/ (0 # speed)
       THEN ui_mspeed_counts
       ELSE speed
  ELSE BL_stop_speed

BL_set_speed(ui_mspeed_counts) ==
  /\ BL_motor_speed' = set_speed_result(BL_motor_speed, ui_mspeed_counts)
  /\ UNCHANGED << BL_comm_period, BL_optimer, BL_opstate, atimer,
                  fault_counter, fault_status, pwm_dutycycle, call >>

\* BL_get_state
BL_get_state ==
  IF BL_motor_speed > PWM_PD_SHUTOFF THEN "BL_IS_RUNNING" ELSE "BL_NOT_RUNNING"


(***************************************************************************)
(* BL_State_Ctrl: one run of the control task.  avail and timing_error are *)
(* what the sensing module answers during this run.                        *)
(***************************************************************************)
\* ARMING branch: the duty for the incremented arming timer
arming_dutycycle(t) ==
  IF BitAnd(t, ARMING_TIME_MASK) # 0 THEN 0
  ELSE IF t > ARMING_TIME_DELAY THEN PWM_PD_ARMING
  ELSE 0

\* the fault pre-step re-initializing the operating state as well
Ctrl_faultStopped ==
  /\ BL_motor_speed' = BL_stop_speed
  /\ pwm_dutycycle' = 0
  /\ BL_opstate' = "BL_STOPPED"
  /\ UNCHANGED << BL_comm_period, BL_optimer, atimer,
                  fault_counter, fault_status, call >>

\* the fault pre-step putting the period at its maximum as well
Ctrl_faultPeriod ==
  /\ BL_motor_speed' = BL_stop_speed
  /\ pwm_dutycycle' = 0
  /\ BL_comm_period' = U16_MAX
  /\ UNCHANGED << BL_optimer, BL_opstate, atimer,
                  fault_counter, fault_status, call >>

\* the fault pre-step: BL_stop, duty 0, nothing else
Ctrl_fault ==
  /\ BL_motor_speed' = BL_stop_speed
  /\ pwm_dutycycle' = 0
  /\ UNCHANGED << BL_comm_period, BL_optimer, BL_opstate, atimer,
                  fault_counter, fault_status, call >>

\* ARMING without the reset at the end of the arming time
Ctrl_armingNoReset ==
  /\ BL_comm_period' = ARMING_BL_TIMING
  /\ atimer' = IF atimer < ARMING_TIME_TOTAL THEN atimer + 1 ELSE atimer
  /\ pwm_dutycycle' = IF atimer < ARMING_TIME_TOTAL
                      THEN arming_dutycycle(atimer + 1) ELSE BL_motor_speed
  /\ UNCHANGED << BL_motor_speed, BL_optimer, BL_opstate,
                  fault_counter, fault_status, call >>

Ctrl_arming ==
  IF atimer < ARMING_TIME_TOTAL
  THEN /\ BL_comm_period' = ARMING_BL_TIMING
       /\ atimer' = atimer + 1
       /\ pwm_dutycycle' = arming_dutycycle(atimer + 1)
       /\ UNCHANGED << BL_motor_speed, BL_optimer, BL_opstate,
                       fault_counter, fault_status, call >>
  ELSE \* BL_reset() after BL_set_timing(ARMING_BL_TIMING); the duty is the
       \* speed read before the reset
       /\ BL_reset_writes
       /\ pwm_dutycycle' = BL_motor_speed
       /\ UNCHANGED << BL_optimer, atimer, fault_counter, call >>

Ctrl_stopped ==
  /\ pwm_dutycycle' = BL_motor_speed
  /\ IF BL_motor_speed > 0
     THEN /\ BL_opstate' = "BL_ALIGN"
          /\ BL_optimer' = BL_TIME_ALIGN
          /\ BL_comm_period' = BL_CT_RAMP_START
     ELSE UNCHANGED << BL_opstate, BL_optimer, BL_comm_period >>
  /\ UNCHANGED << BL_motor_speed, atimer, fault_counter, fault_status, call >>

\* ALIGN left by the tick that counts the operation timer down to zero
Ctrl_alignEarly ==
  /\ IF BL_optimer > 1
     THEN /\ pwm_dutycycle' = PWM_PD_ALIGN
          /\ BL_optimer' = BL_optimer - 1
          /\ UNCHANGED BL_opstate
     ELSE /\ pwm_dutycycle' = BL_motor_speed
          /\ BL_opstate' = "BL_RAMPUP"
          /\ BL_optimer' = 0
  /\ UNCHANGED << BL_comm_period, BL_motor_speed, atimer, fault_counter,
                  fault_status, call >>

Ctrl_align ==
  /\ IF BL_optimer > 0
     THEN /\ pwm_dutycycle' = PWM_PD_ALIGN
          /\ BL_optimer' = BL_optimer - 1
          /\ UNCHANGED BL_opstate
     ELSE /\ pwm_dutycycle' = BL_motor_speed
          /\ BL_opstate' = "BL_RAMPUP"
          /\ UNCHANGED BL_optimer
  /\ UNCHANGED << BL_comm_period, BL_motor_speed, atimer, fault_counter,
                  fault_status, call >>

\* RAMPUP: the test that ends the ramp reads the setpoint taken before the step
rampup_done(bl_timing_setpt, ramped, tgt_timing_setpt) ==
  bl_timing_setpt <= tgt_timing_setpt

Ctrl_rampup ==
  LET bl_timing_setpt == BL_comm_period
      tgt_timing_setpt == BL_CT_RAMP_END
      ramped == timing_ramp_control(bl_timing_setpt, tgt_timing_setpt)
  IN  /\ BL_comm_period' = ramped
      /\ pwm_dutycycle' = PWM_PD_RAMPUP
      /\ BL_opstate' = IF rampup_done(bl_timing_setpt, ramped, tgt_timing_setpt)
                       THEN "BL_OPN_LOOP" ELSE BL_opstate
      /\ UNCHANGED << BL_motor_speed, BL_optimer, atimer, fault_counter,
                      fault_status, call >>

\* OPN_LOOP leaving on the commanded speed (BL_motor_speed > PWM_PD_CLOOP)
\* instead of on the corrector's answer
Ctrl_opn_loopSpeed(avail, timing_error) ==
  LET bl_timing_setpt == BL_comm_period
      ramped == timing_ramp_control(bl_timing_setpt, BL_CT_STARTUP)
  IN  /\ BL_comm_period' = ramped
      /\ pwm_dutycycle' = PWM_PD_STARTUP
      /\ BL_opstate' = IF BL_motor_speed > PWM_PD_STARTUP
                       THEN "BL_CLS_LOOP" ELSE BL_opstate
      /\ UNCHANGED << BL_motor_speed, BL_optimer, atimer, fault_counter,
                      fault_status, call >>

Ctrl_opn_loop(avail, timing_error) ==
  LET bl_timing_setpt == BL_comm_period
      ramped == timing_ramp_control(bl_timing_setpt, BL_CT_STARTUP)
      r == BL_cl_control(ramped, bl_timing_setpt, avail, timing_error)
  IN  /\ BL_comm_period' = r.period
      /\ pwm_dutycycle' = PWM_PD_STARTUP
      /\ BL_opstate' = IF r.ret THEN "BL_CLS_LOOP" ELSE BL_opstate
      /\ UNCHANGED << BL_motor_speed, BL_optimer, atimer, fault_counter,
                      fault_status, call >>

\* CLS_LOOP counting up by FAULT_INCR on an accepted step
FAULT_INCR == 20

cls_fault_counterIncr(cnt, ret) ==
  IF ret
  THEN IF cnt < CL_FAULT_CNTR THEN cnt + FAULT_INCR ELSE cnt
  ELSE IF cnt > 0 THEN cnt - FAULT_DECR ELSE cnt

\* CLS_LOOP: the fault counter after an accepted (ret) or a rejected step
cls_fault_counter(cnt, ret) ==
  IF ret
  THEN IF cnt < CL_FAULT_CNTR THEN CL_FAULT_CNTR ELSE cnt
  ELSE IF cnt > 0 THEN cnt - FAULT_DECR ELSE cnt

\* CLS_LOOP: whether Faultm_set(FAULT_1) is called
cls_fault_set(cnt, ret) == (~ret) /\ ~(cnt > 0)

\* CLS_LOOP ramping the period toward the startup constant on a rejected step
Ctrl_cls_loopRamp(avail, timing_error) ==
  LET r == BL_cl_control(timing_ramp_control(BL_comm_period, BL_CT_STARTUP),
                         BL_comm_period, avail, timing_error)
  IN  /\ BL_comm_period' = r.period
      /\ pwm_dutycycle' = BL_motor_speed
      /\ fault_counter' = cls_fault_counter(fault_counter, r.ret)
      /\ fault_status' = IF cls_fault_set(fault_counter, r.ret)
                         THEN fault_status \cup {"FAULT_1"} ELSE fault_status
      /\ UNCHANGED << BL_motor_speed, BL_optimer, BL_opstate, atimer, call >>

\* CLS_LOOP falling back to STOPPED once the commanded speed is 0
Ctrl_cls_loopStop(avail, timing_error) ==
  LET r == BL_cl_control(BL_comm_period, BL_comm_period, avail, timing_error)
  IN  /\ BL_comm_period' = r.period
      /\ pwm_dutycycle' = BL_motor_speed
      /\ fault_counter' = cls_fault_counter(fault_counter, r.ret)
      /\ fault_status' = IF cls_fault_set(fault_counter, r.ret)
                         THEN fault_status \cup {"FAULT_1"} ELSE fault_status
      /\ BL_opstate' = IF BL_motor_speed = 0 THEN "BL_STOPPED" ELSE BL_opstate
      /\ UNCHANGED << BL_motor_speed, BL_optimer, atimer, call >>

Ctrl_cls_loop(avail, timing_error) ==
  LET r == BL_cl_control(BL_comm_period, BL_comm_period, avail, timing_error)
  IN  /\ BL_comm_period' = r.period
      /\ pwm_dutycycle' = BL_motor_speed
      /\ fault_counter' = cls_fault_counter(fault_counter, r.ret)
      /\ fault_status' = IF cls_fault_set(fault_counter, r.ret)
                         THEN fault_status \cup {"FAULT_1"} ELSE fault_status
      /\ UNCHANGED << BL_motor_speed, BL_optimer, BL_opstate, atimer, call >>

Ctrl_none ==
  /\ pwm_dutycycle' = BL_motor_speed
  /\ UNCHANGED << BL_comm_period, BL_motor_speed, BL_optimer, BL_opstate,
                  atimer, fault_counter, fault_status, call >>

BL_State_Ctrl(avail, timing_error) ==
  IF fault_status # {} THEN Ctrl_fault
  ELSE IF BL_opstate = "BL_ARMING" THEN Ctrl_arming
  ELSE IF BL_opstate = "BL_STOPPED" THEN Ctrl_stopped
  ELSE IF BL_opstate = "BL_ALIGN" THEN Ctrl_align
  ELSE IF BL_opstate = "BL_RAMPUP" THEN Ctrl_rampup
  ELSE IF BL_opstate = "BL_OPN_LOOP" THEN Ctrl_opn_loop(avail, timing_error)
  ELSE IF BL_opstate = "BL_CLS_LOOP" THEN Ctrl_cls_loop(avail, timing_error)
  ELSE Ctrl_none

(***************************************************************************)
(* The system: the control task, and the background task's calls           *)
(***************************************************************************)
\* static storage at start-up: the variables without initializer are zero,
\* which for BL_opstate is BL_ARMING; fault_counter has its initializer
Init ==
  /\ BL_comm_period = 0
  /\ BL_motor_speed = 0
  /\ BL_optimer = 0
  /\ BL_opstate = "BL_ARMING"
  /\ atimer = 0
  /\ fault_counter = CL_FAULT_CNTR
  /\ fault_status = {}
  /\ pwm_dutycycle = 0
  /\ call = NoCall

\* the control task runs
Tick ==
  \E avail \in BOOLEAN, timing_error \in ErrInputs :
    /\ SampleOffered(avail, timing_error)
    /\ BL_State_Ctrl(avail, timing_error)

\* Periodic_task hands the commanded speed to BL_set_speed
SetSpeed ==
  /\ KeyEnabled
  /\ \E v \in SpeedInputs : BL_set_speed(v)

\* m_stop
Reset ==
  /\ KeyEnabled
  /\ BL_reset

\* the fault collaborator asserts a fault (Faultm_upd(VOLTAGE_NG, ...))
Faultm_upd ==
  /\ KeyEnabled
  /\ fault_status' = fault_status \cup {"VOLTAGE_NG"}
  /\ UNCHANGED << BL_comm_period, BL_motor_speed, BL_optimer, BL_opstate,
                  atimer, fault_counter, pwm_dutycycle, call >>

Next == Tick \/ SetSpeed \/ Reset \/ Faultm_upd

Spec == Init /\ [][Next]_vars

\* the system with the control task run again and again (it is scheduled at
\* a fixed rate)
SpecArm == Init /\ [][Next]_vars /\ WF_vars(Tick)

(***************************************************************************)
(* The forward path: the system after BL_reset at start-up, m_start, and   *)
(* the control task running at its fixed rate with no outside fault        *)
(***************************************************************************)
InitFwd ==
  /\ BL_comm_period = U16_MAX
  /\ BL_motor_speed = 0
  /\ BL_optimer = 0
  /\ BL_opstate = "BL_STOPPED"
  /\ atimer = 0
  /\ fault_counter = CL_FAULT_CNTR
  /\ fault_status = {}
  /\ pwm_dutycycle = 0
  /\ call = NoCall

\* m_start: BL_set_speed with a value above the startup threshold
Start ==
  /\ BL_opstate = "BL_STOPPED"
  /\ BL_motor_speed = 0
  /\ BL_set_speed(PWM_PD_STARTUP + 1)

\* a run of the control task in which the sensing module offers a sample
\* within the corrector's limits
TickAccept ==
  \E timing_error \in ErrInputs :
    /\ cl_in_limits(timing_error)
    /\ SampleOffered(TRUE, timing_error)
    /\ BL_State_Ctrl(TRUE, timing_error)

NextFwd == Start \/ Tick

SpecFwd == InitFwd /\ [][NextFwd]_vars /\ WF_vars(Tick) /\ SF_vars(TickAccept)


(***************************************************************************)
(* Unit specification of timing_ramp_control: the ramp applied repeatedly  *)
(* to the period it stored, for one target                                 *)
(***************************************************************************)
\* how far from 0 and from U16_MAX the setpoints of the unit runs reach
RampEdge == 13
\* calls of the ramp per unit run
MaxRampCalls == 5

RampInputs ==
  (0 .. RampEdge) \cup ((U16_MAX - RampEdge) .. U16_MAX)
    \cup { BL_CT_RAMP_END, BL_CT_RAMP_END + 1, BL_CT_RAMP_END + BL_ONE_RAMP_UNIT,
           BL_CT_STARTUP, BL_CT_RAMP_START }

InitRamp ==
  /\ BL_comm_period \in RampInputs
  /\ \E t \in RampInputs :
       call = [ fn |-> "ramp", start |-> BL_comm_period, current |-> BL_comm_period,
                target |-> t, n |-> 0 ]
  /\ BL_motor_speed = 0
  /\ BL_optimer = 0
  /\ BL_opstate = "BL_STOPPED"
  /\ atimer = 0
  /\ fault_counter = CL_FAULT_CNTR
  /\ fault_status = {}
  /\ pwm_dutycycle = 0

RampCall ==
  /\ call.n < MaxRampCalls
  /\ BL_comm_period' = timing_ramp_control(BL_comm_period, call.target)
  /\ call' = [ call EXCEPT !.current = BL_comm_period, !.n = @ + 1 ]
  /\ UNCHANGED << BL_motor_speed, BL_optimer, BL_opstate, atimer,
                  fault_counter, fault_status, pwm_dutycycle >>

SpecRamp == InitRamp /\ [][RampCall]_vars

(***************************************************************************)
(* Unit specification of BL_cl_control                                     *)
(***************************************************************************)
\* how far beyond the error limits the timing errors of the unit runs reach
ErrEdge == 2
\* how far from 0 and from U16_MAX the setpoints of the unit runs reach
ClEdge == 1

ClErrors == (ERROR_MIN - ErrEdge) .. (ERROR_MAX + ErrEdge)

ClSetpoints ==
  (0 .. ClEdge) \cup ((U16_MAX - ClEdge) .. U16_MAX) \cup { BL_CT_RAMP_END, BL_CT_STARTUP }

InitCl ==
  /\ BL_comm_period \in ClSetpoints
  /\ call = [ fn |-> "cl", n |-> 0 ]
  /\ BL_motor_speed = 0
  /\ BL_optimer = 0
  /\ BL_opstate = "BL_STOPPED"
  /\ atimer = 0
  /\ fault_counter = CL_FAULT_CNTR
  /\ fault_status = {}
  /\ pwm_dutycycle = 0

ClCall ==
  /\ call.n = 0
  /\ \E p \in ClSetpoints, avail \in BOOLEAN, e \in ClErrors :
       LET r == BL_cl_control(BL_comm_period, p, avail, e)
       IN  /\ BL_comm_period' = r.period
           /\ call' = [ fn |-> "cl", n |-> 1, before |-> BL_comm_period,
                        current_setpoint |-> p, avail |-> avail,
                        timing_error |-> e, ret |-> r.ret ]
  /\ UNCHANGED << BL_motor_speed, BL_optimer, BL_opstate, atimer,
                  fault_counter, fault_status, pwm_dutycycle >>

SpecCl == InitCl /\ [][ClCall]_vars


(***************************************************************************)
(* BL_Commutation_Step (the timer ISR callback) and its unit specification *)
(***************************************************************************)
\* values BL_get_opstate can return that are no enumerator of BL_State_T
\* (BL_set_opstate takes any uint8_t)
UnrecognizedOpstates == { "unrecognized_7", "unrecognized_255" }

OpstateValues == BL_State_T \cup UnrecognizedOpstates

\* the switch with the break after Sequence_Step_0 missing
BL_Commutation_Step_callsFallthrough(opstate) ==
  IF opstate \in { "BL_ARMING", "BL_ALIGN" }
  THEN << "Sequence_Step_0", "Sequence_Step" >>
  ELSE IF opstate \in { "BL_RAMPUP", "BL_OPN_LOOP", "BL_CLS_LOOP" }
  THEN << "Sequence_Step" >>
  ELSE << >>

\* the primitives of the sequencer one call invokes, in order
BL_Commutation_Step_calls(opstate) ==
  IF opstate \in { "BL_ARMING", "BL_ALIGN" }
  THEN << "Sequence_Step_0" >>
  ELSE IF opstate \in { "BL_RAMPUP", "BL_OPN_LOOP", "BL_CLS_LOOP" }
  THEN << "Sequence_Step" >>
  ELSE << >>

\* calls of the dispatcher per unit run
MaxStepCalls == 2

InitStep ==
  /\ BL_opstate \in OpstateValues
  /\ call = [ fn |-> "step", n |-> 0, opstate |-> BL_opstate, prims |-> << >> ]
  /\ BL_comm_period = U16_MAX
  /\ BL_motor_speed = 0
  /\ BL_optimer = 0
  /\ atimer = 0
  /\ fault_counter = CL_FAULT_CNTR
  /\ fault_status = {}
  /\ pwm_dutycycle = 0

\* BL_set_opstate
BL_set_opstate(opstate) ==
  /\ BL_opstate' = opstate
  /\ UNCHANGED << BL_comm_period, BL_motor_speed, BL_optimer, atimer,
                  fault_counter, fault_status, pwm_dutycycle, call >>

SetOpstate ==
  /\ call.n < MaxStepCalls
  /\ \E opstate \in OpstateValues : BL_set_opstate(opstate)

BL_Commutation_Step ==
  /\ call.n < MaxStepCalls
  /\ call' = [ fn |-> "step", n |-> call.n + 1, opstate |-> BL_opstate,
               prims |-> BL_Commutation_Step_calls(BL_opstate) ]
  /\ UNCHANGED << BL_comm_period, BL_motor_speed, BL_optimer, BL_opstate,
                  atimer, fault_counter, fault_status, pwm_dutycycle >>

NextStep == SetOpstate \/ BL_Commutation_Step

SpecStep == InitStep /\ [][NextStep]_vars


(***************************************************************************)
(* Periodic_task, the background task, statement by statement, with the    *)
(* control task as the interrupt it can be preempted by.  The call record  *)
(* holds the task's position pc, the interrupt mask, the handler fp that   *)
(* handle_term_inp returned, UI_Speed and the local bl_state.              *)
(***************************************************************************)
\* the positions between disableInterrupts() and enableInterrupts()
InsideCS ==
  { "m_start", "reset_stop", "reset_timing", "reset_faultm", "reset_opstate",
    "m_stop", "get_state", "set_speed", "EI" }

\* the positions inside BL_reset after its first statement
InsideReset == { "reset_timing", "reset_faultm", "reset_opstate" }

\* the key handlers that write the speed setpoint
Handlers == { "NULL", "m_start", "m_stop" }

\* MSPEED_PCNT_INCREM_STEP, taken as one count
UI_Speed_start == PWM_PD_STARTUP + 1

InitTask ==
  /\ BL_comm_period = U16_MAX
  /\ BL_motor_speed = 0
  /\ BL_optimer = 0
  /\ BL_opstate = "BL_STOPPED"
  /\ atimer = 0
  /\ fault_counter = CL_FAULT_CNTR
  /\ fault_status = {}
  /\ pwm_dutycycle = 0
  /\ call = [ fn |-> "Periodic_task", pc |-> "idle", masked |-> FALSE,
              fp |-> "NULL", UI_Speed |-> 0, bl_state |-> "BL_NOT_RUNNING" ]

\* ui_handlrp_t fp = handle_term_inp(), before the critical section
T_input ==
  /\ KeyEnabled
  /\ call.fn = "Periodic_task" /\ call.pc = "idle"
  /\ \E fp \in Handlers : call' = [ call EXCEPT !.pc = "DI", !.fp = fp ]
  /\ UNCHANGED << BL_comm_period, BL_motor_speed, BL_optimer, BL_opstate,
                  atimer, fault_counter, fault_status, pwm_dutycycle >>

\* the task entering its critical section with the interrupts left enabled
T_DI_unmasked ==
  /\ call.fn = "Periodic_task" /\ call.pc = "DI"
  /\ call' = [ call EXCEPT !.masked = FALSE,
                           !.pc = IF call.fp = "m_start" THEN "m_start"
                                  ELSE IF call.fp = "m_stop" THEN "reset_stop"
                                  ELSE "get_state" ]
  /\ UNCHANGED << BL_comm_period, BL_motor_speed, BL_optimer, BL_opstate,
                  atimer, fault_counter, fault_status, pwm_dutycycle >>

\* disableInterrupts(), and the test of fp
T_DI ==
  /\ call.fn = "Periodic_task" /\ call.pc = "DI"
  /\ call' = [ call EXCEPT !.masked = TRUE,
                           !.pc = IF call.fp = "m_start" THEN "m_start"
                                  ELSE IF call.fp = "m_stop" THEN "reset_stop"
                                  ELSE "get_state" ]
  /\ UNCHANGED << BL_comm_period, BL_motor_speed, BL_optimer, BL_opstate,
                  atimer, fault_counter, fault_status, pwm_dutycycle >>

\* m_start: UI_Speed = PWM_PD_STARTUP + MSPEED_PCNT_INCREM_STEP and
\* BL_set_speed(UI_Speed)
T_m_start ==
  /\ call.fn = "Periodic_task" /\ call.pc = "m_start"
  /\ call' = [ call EXCEPT !.pc = "get_state", !.UI_Speed = UI_Speed_start ]
  /\ BL_motor_speed' = set_speed_result(BL_motor_speed, UI_Speed_start)
  /\ UNCHANGED << BL_comm_period, BL_optimer, BL_opstate, atimer,
                  fault_counter, fault_status, pwm_dutycycle >>

\* m_stop, BL_reset: BL_stop()
T_reset_stop ==
  /\ call.fn = "Periodic_task" /\ call.pc = "reset_stop"
  /\ call' = [ call EXCEPT !.pc = "reset_timing" ]
  /\ BL_motor_speed' = BL_stop_speed
  /\ UNCHANGED << BL_comm_period, BL_optimer, BL_opstate, atimer,
                  fault_counter, fault_status, pwm_dutycycle >>

\* BL_reset: BL_set_timing(U16_MAX)
T_reset_timing ==
  /\ call.fn = "Periodic_task" /\ call.pc = "reset_timing"
  /\ call' = [ call EXCEPT !.pc = "reset_faultm" ]
  /\ BL_comm_period' = U16_MAX
  /\ UNCHANGED << BL_motor_speed, BL_optimer, BL_opstate, atimer,
                  fault_counter, fault_status, pwm_dutycycle >>

\* BL_reset: Faultm_init()
T_reset_faultm ==
  /\ call.fn = "Periodic_task" /\ call.pc = "reset_faultm"
  /\ call' = [ call EXCEPT !.pc = "reset_opstate" ]
  /\ fault_status' = Faultm_init
  /\ UNCHANGED << BL_comm_period, BL_motor_speed, BL_optimer, BL_opstate,
                  atimer, fault_counter, pwm_dutycycle >>

\* BL_reset: BL_set_opstate(BL_STOPPED)
T_reset_opstate ==
  /\ call.fn = "Periodic_task" /\ call.pc = "reset_opstate"
  /\ call' = [ call EXCEPT !.pc = "m_stop" ]
  /\ BL_opstate' = "BL_STOPPED"
  /\ UNCHANGED << BL_comm_period, BL_motor_speed, BL_optimer, atimer,
                  fault_counter, fault_status, pwm_dutycycle >>

\* m_stop after BL_reset: UI_Speed = 0
T_m_stop ==
  /\ call.fn = "Periodic_task" /\ call.pc = "m_stop"
  /\ call' = [ call EXCEPT !.pc = "get_state", !.UI_Speed = 0 ]
  /\ UNCHANGED << BL_comm_period, BL_motor_speed, BL_optimer, BL_opstate,
                  atimer, fault_counter, fault_status, pwm_dutycycle >>

\* bl_state = BL_get_state(), and the test of the keyboard detect window
T_get_state ==
  /\ call.fn = "Periodic_task" /\ call.pc = "get_state"
  /\ \E window \in BOOLEAN :
       call' = [ call EXCEPT !.pc = IF window THEN "EI" ELSE "set_speed",
                             !.bl_state = BL_get_state ]
  /\ UNCHANGED << BL_comm_period, BL_motor_speed, BL_optimer, BL_opstate,
                  atimer, fault_counter, fault_status, pwm_dutycycle >>

\* BL_set_speed(cmd_speed), cmd_speed being UI_Speed or the radio's value
T_set_speed ==
  /\ call.fn = "Periodic_task" /\ call.pc = "set_speed"
  /\ call' = [ call EXCEPT !.pc = "EI" ]
  /\ \E cmd_speed \in { call.UI_Speed, PWM_PD_SHUTOFF + 1 } :
       BL_motor_speed' = set_speed_result(BL_motor_speed, cmd_speed)
  /\ UNCHANGED << BL_comm_period, BL_optimer, BL_opstate, atimer,
                  fault_counter, fault_status, pwm_dutycycle >>

\* enableInterrupts()
T_EI ==
  /\ call.fn = "Periodic_task" /\ call.pc = "EI"
  /\ call' = [ call EXCEPT !.pc = "upd", !.masked = FALSE ]
  /\ UNCHANGED << BL_comm_period, BL_motor_speed, BL_optimer, BL_opstate,
                  atimer, fault_counter, fault_status, pwm_dutycycle >>

\* Faultm_upd(VOLTAGE_NG, Vsystem < V_SHUTDOWN_THR) when bl_state is running
T_upd ==
  /\ call.fn = "Periodic_task" /\ call.pc = "upd"
  /\ call' = [ call EXCEPT !.pc = "idle" ]
  /\ \E undervoltage \in BOOLEAN :
       fault_status' = IF call.bl_state = "BL_IS_RUNNING" /\ undervoltage
                       THEN fault_status \cup {"VOLTAGE_NG"}
                       ELSE fault_status
  /\ UNCHANGED << BL_comm_period, BL_motor_speed, BL_optimer, BL_opstate,
                  atimer, fault_counter, pwm_dutycycle >>

\* the control task, run from the interrupt: not while interrupts are masked
TickISR ==
  /\ call.fn = "Periodic_task"
  /\ ~call.masked
  /\ Tick

Periodic_task ==
  \/ T_input \/ T_DI \/ T_m_start
  \/ T_reset_stop \/ T_reset_timing \/ T_reset_faultm \/ T_reset_opstate
  \/ T_m_stop \/ T_get_state \/ T_set_speed \/ T_EI \/ T_upd

NextTask == Periodic_task \/ TickISR

SpecTask == InitTask /\ [][NextTask]_vars


(***************************************************************************)
(* BL_State_Ctrl statement by statement, with the commutation timer        *)
(* interrupt (BL_Commutation_Step) arriving between any two statements.    *)
(* The call record holds the control task's position pc, its locals, the   *)
(* sensing module's answer for this run, and prims, the primitives the     *)
(* last commutation interrupt invoked.                                     *)
(***************************************************************************)
IdleCtrl ==
  [ fn |-> "BL_State_Ctrl", pc |-> "idle", inp_dutycycle |-> 0,
    bl_timing_setpt |-> 0, avail |-> FALSE, timing_error |-> 0,
    ret |-> FALSE, prims |-> << >> ]

InitInt ==
  /\ BL_comm_period = 0
  /\ BL_motor_speed = 0
  /\ BL_optimer = 0
  /\ BL_opstate = "BL_ARMING"
  /\ atimer = 0
  /\ fault_counter = CL_FAULT_CNTR
  /\ fault_status = {}
  /\ pwm_dutycycle = 0
  /\ call = IdleCtrl

\* the branch of the if-chain taken for the operating state read
ctrl_branch ==
  IF BL_opstate = "BL_ARMING" THEN "arm_timing"
  ELSE IF BL_opstate = "BL_STOPPED"
  THEN (IF BL_motor_speed > 0 THEN "stp_opstate" ELSE "pwm")
  ELSE IF BL_opstate = "BL_ALIGN" THEN "align"
  ELSE IF BL_opstate = "BL_RAMPUP" THEN "rampup_ramp"
  ELSE IF BL_opstate = "BL_OPN_LOOP" THEN "opn_ramp"
  ELSE IF BL_opstate = "BL_CLS_LOOP" THEN "cls_cl"
  ELSE "pwm"

\* inp_dutycycle = 0, the test of Faultm_get_status(), bl_opstate =
\* BL_get_opstate(), inp_dutycycle = BL_get_speed() and the tests of the
\* operating state; avail and timing_error are what the sensing module will
\* answer in this run, asked for in OPN_LOOP and CLS_LOOP only
S_entry ==
  /\ call.fn = "BL_State_Ctrl" /\ call.pc = "idle"
  /\ \E avail \in BOOLEAN, timing_error \in ErrInputs :
       /\ SampleOffered(avail, timing_error)
       /\ call' = IF fault_status # {}
                  THEN [ call EXCEPT !.pc = "stop", !.inp_dutycycle = 0 ]
                  ELSE IF ctrl_branch \in { "opn_ramp", "cls_cl" }
                  THEN [ call EXCEPT !.pc = ctrl_branch,
                                     !.inp_dutycycle = BL_motor_speed,
                                     !.avail = avail,
                                     !.timing_error = timing_error ]
                  ELSE [ call EXCEPT !.pc = ctrl_branch,
                                     !.inp_dutycycle = BL_motor_speed ]
  /\ UNCHANGED << BL_comm_period, BL_motor_speed, BL_optimer, BL_opstate,
                  atimer, fault_counter, fault_status, pwm_dutycycle >>

\* BL_stop() of the fault pre-step
S_stop ==
  /\ call.fn = "BL_State_Ctrl" /\ call.pc = "stop"
  /\ call' = [ call EXCEPT !.pc = "pwm" ]
  /\ BL_motor_speed' = BL_stop_speed
  /\ UNCHANGED << BL_comm_period, BL_optimer, BL_opstate, atimer,
                  fault_counter, fault_status, pwm_dutycycle >>

\* ARMING: BL_set_timing(ARMING_BL_TIMING) and the test of atimer
S_arm_timing ==
  /\ call.fn = "BL_State_Ctrl" /\ call.pc = "arm_timing"
  /\ call' = [ call EXCEPT !.pc = IF atimer < ARMING_TIME_TOTAL
                                  THEN "arm_count" ELSE "arm_reset_stop" ]
  /\ BL_comm_period' = ARMING_BL_TIMING
  /\ UNCHANGED << BL_motor_speed, BL_optimer, BL_opstate, atimer,
                  fault_counter, fault_status, pwm_dutycycle >>

\* ARMING: atimer += 1 and the duty for it
S_arm_count ==
  /\ call.fn = "BL_State_Ctrl" /\ call.pc = "arm_count"
  /\ call' = [ call EXCEPT !.pc = "pwm",
                           !.inp_dutycycle = arming_dutycycle(atimer + 1) ]
  /\ atimer' = atimer + 1
  /\ UNCHANGED << BL_comm_period, BL_motor_speed, BL_optimer, BL_opstate,
                  fault_counter, fault_status, pwm_dutycycle >>

\* ARMING, BL_reset: BL_stop()
S_arm_reset_stop ==
  /\ call.fn = "BL_State_Ctrl" /\ call.pc = "arm_reset_stop"
  /\ call' = [ call EXCEPT !.pc = "arm_reset_timing" ]
  /\ BL_motor_speed' = BL_stop_speed
  /\ UNCHANGED << BL_comm_period, BL_optimer, BL_opstate, atimer,
                  fault_counter, fault_status, pwm_dutycycle >>

\* ARMING, BL_reset: BL_set_timing(U16_MAX)
S_arm_reset_timing ==
  /\ call.fn = "BL_State_Ctrl" /\ call.pc = "arm_reset_timing"
  /\ call' = [ call EXCEPT !.pc = "arm_reset_faultm" ]
  /\ BL_comm_period' = U16_MAX
  /\ UNCHANGED << BL_motor_speed, BL_optimer, BL_opstate, atimer,
                  fault_counter, fault_status, pwm_dutycycle >>

\* ARMING, BL_reset: Faultm_init()
S_arm_reset_faultm ==
  /\ call.fn = "BL_State_Ctrl" /\ call.pc = "arm_reset_faultm"
  /\ call' = [ call EXCEPT !.pc = "arm_reset_opstate" ]
  /\ fault_status' = Faultm_init
  /\ UNCHANGED << BL_comm_period, BL_motor_speed, BL_optimer, BL_opstate,
                  atimer, fault_counter, pwm_dutycycle >>

\* ARMING, BL_reset: BL_set_opstate(BL_STOPPED)
S_arm_reset_opstate ==
  /\ call.fn = "BL_State_Ctrl" /\ call.pc = "arm_reset_opstate"
  /\ call' = [ call EXCEPT !.pc = "pwm" ]
  /\ BL_opstate' = "BL_STOPPED"
  /\ UNCHANGED << BL_comm_period, BL_motor_speed, BL_optimer, atimer,
                  fault_counter, fault_status, pwm_dutycycle >>

\* STOPPED with a nonzero duty: BL_set_opstate(BL_ALIGN)
S_stp_opstate ==
  /\ call.fn = "BL_State_Ctrl" /\ call.pc = "stp_opstate"
  /\ call' = [ call EXCEPT !.pc = "stp_timer" ]
  /\ BL_opstate' = "BL_ALIGN"
  /\ UNCHANGED << BL_comm_period, BL_motor_speed, BL_optimer, atimer,
                  fault_counter, fault_status, pwm_dutycycle >>

\* STOPPED: BL_optimer = BL_TIME_ALIGN
S_stp_timer ==
  /\ call.fn = "BL_State_Ctrl" /\ call.pc = "stp_timer"
  /\ call' = [ call EXCEPT !.pc = "stp_timing" ]
  /\ BL_optimer' = BL_TIME_ALIGN
  /\ UNCHANGED << BL_comm_period, BL_motor_speed, BL_opstate, atimer,
                  fault_counter, fault_status, pwm_dutycycle >>

\* STOPPED: BL_set_timing(BL_CT_RAMP_START)
S_stp_timing ==
  /\ call.fn = "BL_State_Ctrl" /\ call.pc = "stp_timing"
  /\ call' = [ call EXCEPT !.pc = "pwm" ]
  /\ BL_comm_period' = BL_CT_RAMP_START
  /\ UNCHANGED << BL_motor_speed, BL_optimer, BL_opstate, atimer,
                  fault_counter, fault_status, pwm_dutycycle >>

\* ALIGN
S_align ==
  /\ call.fn = "BL_State_Ctrl" /\ call.pc = "align"
  /\ IF BL_optimer > 0
     THEN /\ call' = [ call EXCEPT !.pc = "pwm", !.inp_dutycycle = PWM_PD_ALIGN ]
          /\ BL_optimer' = BL_optimer - 1
          /\ UNCHANGED BL_opstate
     ELSE /\ call' = [ call EXCEPT !.pc = "pwm" ]
          /\ BL_opstate' = "BL_RAMPUP"
          /\ UNCHANGED BL_optimer
  /\ UNCHANGED << BL_comm_period, BL_motor_speed, atimer, fault_counter,
                  fault_status, pwm_dutycycle >>

\* RAMPUP: bl_timing_setpt = BL_get_timing(), timing_ramp_control,
\* inp_dutycycle = PWM_PD_RAMPUP
S_rampup_ramp ==
  /\ call.fn = "BL_State_Ctrl" /\ call.pc = "rampup_ramp"
  /\ call' = [ call EXCEPT !.pc = "rampup_test",
                           !.bl_timing_setpt = BL_comm_period,
                           !.inp_dutycycle = PWM_PD_RAMPUP ]
  /\ BL_comm_period' = timing_ramp_control(BL_comm_period, BL_CT_RAMP_END)
  /\ UNCHANGED << BL_motor_speed, BL_optimer, BL_opstate, atimer,
                  fault_counter, fault_status, pwm_dutycycle >>

\* RAMPUP: the test of bl_timing_setpt and BL_set_opstate(BL_OPN_LOOP)
S_rampup_test ==
  /\ call.fn = "BL_State_Ctrl" /\ call.pc = "rampup_test"
  /\ call' = [ call EXCEPT !.pc = "pwm", !.bl_timing_setpt = 0 ]
  /\ BL_opstate' = IF rampup_done(call.bl_timing_setpt, BL_comm_period,
                                  BL_CT_RAMP_END)
                   THEN "BL_OPN_LOOP" ELSE BL_opstate
  /\ UNCHANGED << BL_comm_period, BL_motor_speed, BL_optimer, atimer,
                  fault_counter, fault_status, pwm_dutycycle >>

\* OPN_LOOP: bl_timing_setpt = BL_get_timing(), timing_ramp_control,
\* inp_dutycycle = PWM_PD_STARTUP
S_opn_ramp ==
  /\ call.fn = "BL_State_Ctrl" /\ call.pc = "opn_ramp"
  /\ call' = [ call EXCEPT !.pc = "opn_cl",
                           !.bl_timing_setpt = BL_comm_period,
                           !.inp_dutycycle = PWM_PD_STARTUP ]
  /\ BL_comm_period' = timing_ramp_control(BL_comm_period, BL_CT_STARTUP)
  /\ UNCHANGED << BL_motor_speed, BL_optimer, BL_opstate, atimer,
                  fault_counter, fault_status, pwm_dutycycle >>

\* OPN_LOOP: BL_cl_control(bl_timing_setpt)
S_opn_cl ==
  /\ call.fn = "BL_State_Ctrl" /\ call.pc = "opn_cl"
  /\ LET r == BL_cl_control(BL_comm_period, call.bl_timing_setpt,
                            call.avail, call.timing_error)
     IN  /\ BL_comm_period' = r.period
         /\ call' = [ call EXCEPT !.pc = "opn_opstate", !.ret = r.ret,
                                  !.bl_timing_setpt = 0, !.avail = FALSE,
                                  !.timing_error = 0 ]
  /\ UNCHANGED << BL_motor_speed, BL_optimer, BL_opstate, atimer,
                  fault_counter, fault_status, pwm_dutycycle >>

\* OPN_LOOP: BL_set_opstate(BL_CLS_LOOP) when the corrector returned TRUE
S_opn_opstate ==
  /\ call.fn = "BL_State_Ctrl" /\ call.pc = "opn_opstate"
  /\ call' = [ call EXCEPT !.pc = "pwm", !.ret = FALSE ]
  /\ BL_opstate' = IF call.ret THEN "BL_CLS_LOOP" ELSE BL_opstate
  /\ UNCHANGED << BL_comm_period, BL_motor_speed, BL_optimer, atimer,
                  fault_counter, fault_status, pwm_dutycycle >>

\* CLS_LOOP: BL_cl_control(BL_get_timing())
S_cls_cl ==
  /\ call.fn = "BL_State_Ctrl" /\ call.pc = "cls_cl"
  /\ LET r == BL_cl_control(BL_comm_period, BL_comm_period,
                            call.avail, call.timing_error)
     IN  /\ BL_comm_period' = r.period
         /\ call' = [ call EXCEPT !.pc = "cls_count", !.ret = r.ret,
                                  !.avail = FALSE, !.timing_error = 0 ]
  /\ UNCHANGED << BL_motor_speed, BL_optimer, BL_opstate, atimer,
                  fault_counter, fault_status, pwm_dutycycle >>

\* CLS_LOOP: the fault counter and Faultm_set(FAULT_1)
S_cls_count ==
  /\ call.fn = "BL_State_Ctrl" /\ call.pc = "cls_count"
  /\ call' = [ call EXCEPT !.pc = "pwm", !.ret = FALSE ]
  /\ fault_counter' = cls_fault_counter(fault_counter, call.ret)
  /\ fault_status' = IF cls_fault_set(fault_counter, call.ret)
                     THEN fault_status \cup {"FAULT_1"} ELSE fault_status
  /\ UNCHANGED << BL_comm_period, BL_motor_speed, BL_optimer, BL_opstate,
                  atimer, pwm_dutycycle >>

\* PWM_set_dutycycle(inp_dutycycle), and the return
S_pwm ==
  /\ call.fn = "BL_State_Ctrl" /\ call.pc = "pwm"
  /\ call' = [ call EXCEPT !.pc = "idle", !.inp_dutycycle = 0 ]
  /\ pwm_dutycycle' = call.inp_dutycycle
  /\ UNCHANGED << BL_comm_period, BL_motor_speed, BL_optimer, BL_opstate,
                  atimer, fault_counter, fault_status >>

\* the statements of the control task
CtrlStatement ==
  \/ S_entry \/ S_stop
  \/ S_arm_timing \/ S_arm_count
  \/ S_arm_reset_stop \/ S_arm_reset_timing \/ S_arm_reset_faultm
  \/ S_arm_reset_opstate
  \/ S_stp_opstate \/ S_stp_timer \/ S_stp_timing
  \/ S_align
  \/ S_rampup_ramp \/ S_rampup_test
  \/ S_opn_ramp \/ S_opn_cl \/ S_opn_opstate
  \/ S_cls_cl \/ S_cls_count
  \/ S_pwm

\* the commutation interrupt with the dispatcher counting down the
\* operation timer while it holds sector 0 in ALIGN
CommutationISRTimeout ==
  /\ call.fn = "BL_State_Ctrl"
  /\ call' = [ call EXCEPT !.prims = BL_Commutation_Step_calls(BL_opstate) ]
  /\ BL_optimer' = IF BL_opstate = "BL_ALIGN" /\ BL_optimer > 0
                   THEN BL_optimer - 1 ELSE BL_optimer
  /\ UNCHANGED << BL_comm_period, BL_motor_speed, BL_opstate, atimer,
                  fault_counter, fault_status, pwm_dutycycle >>

\* the commutation timer interrupt: BL_Commutation_Step, at any position of
\* the control task
CommutationISR ==
  /\ call.fn = "BL_State_Ctrl"
  /\ call' = [ call EXCEPT !.prims = BL_Commutation_Step_calls(BL_opstate) ]
  /\ UNCHANGED << BL_comm_period, BL_motor_speed, BL_optimer, BL_opstate,
                  atimer, fault_counter, fault_status, pwm_dutycycle >>

\* m_start between two runs of the control task
StartInt ==
  /\ call.fn = "BL_State_Ctrl" /\ call.pc = "idle"
  /\ Start

NextInt == CtrlStatement \/ StartInt \/ CommutationISR

SpecInt == InitInt /\ [][NextInt]_vars

(***************************************************************************)
(* Properties                                                              *)
(***************************************************************************)
Max(a, b) == IF a >= b THEN a ELSE b
Min(a, b) == IF a <= b THEN a ELSE b
Abs(a) == IF a >= 0 THEN a ELSE -a
CeilDiv(a, b) == (a + b - 1) \div b

\* the ramp step as a clamp computed without wraparound
RampClamped(current, target) ==
  IF current > target THEN Max(target, current - BL_ONE_RAMP_UNIT)
  ELSE IF current < target THEN Min(target, current + BL_ONE_RAMP_UNIT)
  ELSE current

\* C1: one call of timing_ramp_control(current, target) stores
\* max(target, current - STEP) when current > target, min(target, current + STEP)
\* when current < target and current when they are equal, so the stored period
\* lies between current and target and never passes target, also when
\* current < STEP or current > 0xFFFF - STEP.
C1_RampStepClamped ==
  (call.fn = "ramp" /\ call.n > 0)
    => /\ BL_comm_period = RampClamped(call.current, call.target)
       /\ Min(call.current, call.target) <= BL_comm_period
       /\ BL_comm_period <= Max(call.current, call.target)

\* C2: the ramp applied repeatedly for one target has period = target after
\* ceil(|current - target| / STEP) calls, and after every later call.
C2_RampConverges ==
  (call.fn = "ramp"
     /\ call.n >= CeilDiv(Abs(call.start - call.target), BL_ONE_RAMP_UNIT))
    => BL_comm_period = call.target

\* q is e/10 truncated toward zero
IsQuotientTowardZero(q, e) ==
  /\ 10 * Abs(q) <= Abs(e)
  /\ Abs(e) < 10 * Abs(q) + 10
  /\ (q > 0 => e > 0)
  /\ (q < 0 => e < 0)

\* C3: BL_cl_control(p) returns FALSE and leaves the period unchanged when no
\* sample is available or the error e has e <= -50 or e >= 50; otherwise it
\* returns TRUE and stores p + e/10 (truncated toward zero) as a 16-bit value,
\* which is p when |e| < 10.
C3_ClControl ==
  (call.fn = "cl" /\ call.n = 1)
    => LET e == call.timing_error
           p == call.current_setpoint
       IN  IF (~call.avail) \/ e <= -50 \/ e >= 50
           THEN /\ call.ret = FALSE
                /\ BL_comm_period = call.before
           ELSE /\ call.ret = TRUE
                /\ \E q \in -5 .. 5 :
                     /\ IsQuotientTowardZero(q, e)
                     /\ BL_comm_period = (p + q) % 65536
                /\ (Abs(e) < 10 => BL_comm_period = p)

\* an accepted call with a negative error that is no multiple of 10, on a
\* setpoint the correction takes below zero
C3_Witness ==
  /\ call.fn = "cl" /\ call.n = 1
  /\ call.ret = TRUE
  /\ call.timing_error = -15
  /\ call.current_setpoint = 0
  /\ call.before # U16_MAX
  /\ BL_comm_period = U16_MAX

\* C4: BL_set_speed(v) makes the commanded speed 0 when v <= shutoff, v when
\* v > startup or when v > shutoff and the speed was nonzero, and leaves it
\* unchanged otherwise; it never changes the operating state, the
\* commutation period or the operation timer.
C4_SetSpeed ==
  [][ \A v \in SpeedInputs :
        BL_set_speed(v)
          => /\ BL_motor_speed' =
                  (IF v <= PWM_PD_SHUTOFF THEN 0
                   ELSE IF v > PWM_PD_STARTUP \/ BL_motor_speed # 0 THEN v
                   ELSE BL_motor_speed)
             /\ BL_opstate' = BL_opstate
             /\ BL_comm_period' = BL_comm_period
             /\ BL_optimer' = BL_optimer ]_vars

\* a speed between the thresholds is commanded: it was taken over because
\* the motor was running
C4_Witness ==
  /\ BL_motor_speed = PWM_PD_SHUTOFF + 1
  /\ BL_opstate = "BL_CLS_LOOP"


FwdEdges ==
  { << "BL_STOPPED", "BL_ALIGN" >>, << "BL_ALIGN", "BL_RAMPUP" >>,
    << "BL_RAMPUP", "BL_OPN_LOOP" >>, << "BL_OPN_LOOP", "BL_CLS_LOOP" >> }

\* C5: from STOPPED with speed 0 and no fault, after
\* BL_set_speed(startup + 1) the ticks take the state through exactly
\* STOPPED, ALIGN, RAMPUP, OPEN_LOOP, CLOSED_LOOP: ALIGN is entered with the
\* operation timer at BL_TIME_ALIGN, counts it down by one per tick and is left
\* when it is zero; RAMPUP is kept while the period is above the ramp-end
\* constant and left with the period at it; OPEN_LOOP is left exactly on a tick
\* on which the corrector accepts; every tick passes a nonzero duty; and
\* CLOSED_LOOP is eventually reached when the corrector eventually accepts.
C5_ForwardPath ==
  /\ [][ BL_opstate' # BL_opstate => << BL_opstate, BL_opstate' >> \in FwdEdges ]_vars
  /\ [][ (BL_opstate = "BL_STOPPED" /\ BL_motor_speed > 0 /\ Tick)
           => BL_opstate' = "BL_ALIGN" /\ BL_optimer' = BL_TIME_ALIGN ]_vars
  /\ [][ (BL_opstate = "BL_ALIGN" /\ Tick)
           => IF BL_optimer > 0
              THEN BL_opstate' = "BL_ALIGN" /\ BL_optimer' = BL_optimer - 1
              ELSE BL_opstate' = "BL_RAMPUP" ]_vars
  /\ [][ (BL_opstate = "BL_RAMPUP" /\ Tick)
           => /\ BL_comm_period' > BL_CT_RAMP_END => BL_opstate' = "BL_RAMPUP"
              /\ BL_opstate' # "BL_RAMPUP" => BL_comm_period' = BL_CT_RAMP_END ]_vars
  /\ [][ \A avail \in BOOLEAN, e \in ErrInputs :
           (BL_opstate = "BL_OPN_LOOP" /\ SampleOffered(avail, e)
              /\ BL_State_Ctrl(avail, e))
             => (BL_opstate' = "BL_CLS_LOOP" <=> (avail /\ -50 < e /\ e < 50)) ]_vars
  /\ [][ (BL_motor_speed > 0 /\ fault_status = {} /\ Tick)
           => pwm_dutycycle' > 0 ]_vars
  /\ (BL_motor_speed > 0) ~> (BL_opstate = "BL_CLS_LOOP")

\* CLOSED_LOOP reached on the forward path, the first tick in it made
C5_Witness ==
  /\ BL_opstate = "BL_CLS_LOOP"
  /\ BL_motor_speed = PWM_PD_STARTUP + 1
  /\ pwm_dutycycle = PWM_PD_STARTUP + 1
  /\ BL_optimer = 0
  /\ fault_status = {}


\* C6: while a fault is active every tick passes duty 0, makes the commanded
\* speed 0 and leaves the operating state (and the fault) as it is; the
\* operating state then changes only by BL_reset, which leaves STOPPED and
\* speed 0.
C6_FaultFreeze ==
  /\ [][ (fault_status # {} /\ Tick)
           => /\ pwm_dutycycle' = 0
              /\ BL_motor_speed' = 0
              /\ BL_opstate' = BL_opstate
              /\ fault_status' = fault_status ]_vars
  /\ [][ (fault_status # {} /\ BL_opstate' # BL_opstate) => BL_reset ]_vars
  /\ [][ (fault_status # {} /\ BL_reset)
           => /\ BL_opstate' = "BL_STOPPED"
              /\ BL_motor_speed' = 0 ]_vars

\* CLOSED_LOOP frozen by an outside fault after a corrected step, the tick
\* of the fault pre-step made
C6_Witness ==
  /\ BL_opstate = "BL_CLS_LOOP"
  /\ "VOLTAGE_NG" \in fault_status
  /\ fault_counter = CL_FAULT_CNTR
  /\ BL_comm_period = BL_CT_STARTUP - 1
  /\ BL_motor_speed = 0
  /\ pwm_dutycycle = 0

\* C7: in CLOSED_LOOP a rejected tick with the counter above zero only
\* decrements it by one and reports no fault, a rejected tick with the
\* counter at zero reports FAULT_1 and changes neither counter nor operating
\* state, an accepted tick puts the counter at CL_FAULT_CNTR; FAULT_1 is
\* reported by no other step, and the counter stays in 0 .. CL_FAULT_CNTR.
C7_Hysteresis ==
  /\ [](fault_counter \in 0 .. CL_FAULT_CNTR)
  /\ [][ \A avail \in BOOLEAN, e \in ErrInputs :
           (BL_opstate = "BL_CLS_LOOP" /\ fault_status = {}
              /\ SampleOffered(avail, e) /\ BL_State_Ctrl(avail, e))
             => IF avail /\ -50 < e /\ e < 50
                THEN fault_counter' = CL_FAULT_CNTR /\ fault_status' = {}
                ELSE IF fault_counter > 0
                THEN fault_counter' = fault_counter - 1 /\ fault_status' = {}
                ELSE /\ "FAULT_1" \in fault_status'
                     /\ fault_counter' = 0
                     /\ BL_opstate' = BL_opstate ]_vars
  /\ [][ ("FAULT_1" \in fault_status' /\ "FAULT_1" \notin fault_status)
           => /\ fault_counter = 0
              /\ BL_opstate = "BL_CLS_LOOP"
              /\ BL_opstate' = "BL_CLS_LOOP" ]_vars

\* the fault reported after the counter ran from its maximum to zero
C7_Witness ==
  /\ BL_opstate = "BL_CLS_LOOP"
  /\ fault_status = {"FAULT_1"}
  /\ fault_counter = 0

\* C8: whenever the operating state goes from OPEN_LOOP to CLOSED_LOOP the
\* fault counter is at its maximum CL_FAULT_CNTR.
C8_CounterAtEntry ==
  [][ (BL_opstate = "BL_OPN_LOOP" /\ BL_opstate' = "BL_CLS_LOOP")
        => fault_counter' = CL_FAULT_CNTR ]_vars

\* C9: in every reachable state BL_reset leaves period 0xFFFF, STOPPED,
\* speed 0 and the fault status initialized, and a second BL_reset leaves
\* what the first left; every BL_reset step of the system does so.
C9_Reset ==
  /\ [] LET once == BL_reset_result(ResetState)
            twice == BL_reset_result(once)
        IN  /\ once.BL_comm_period = 65535
            /\ once.BL_opstate = "BL_STOPPED"
            /\ once.BL_motor_speed = 0
            /\ once.fault_status = {}
            /\ twice = once
  /\ [][ BL_reset
           => /\ BL_comm_period' = 65535
              /\ BL_opstate' = "BL_STOPPED"
              /\ BL_motor_speed' = 0
              /\ fault_status' = {} ]_vars

\* the state BL_reset left after the hysteresis fault of a CLOSED_LOOP run
C9_Witness ==
  /\ BL_opstate = "BL_STOPPED"
  /\ BL_comm_period = U16_MAX
  /\ BL_motor_speed = 0
  /\ fault_status = {}
  /\ fault_counter = 0

\* C10: a tick changes the operating state only along STOPPED->ALIGN,
\* ALIGN->RAMPUP, RAMPUP->OPEN_LOOP, OPEN_LOOP->CLOSED_LOOP, or by the reset
\* that ends ARMING; no step but a tick or BL_reset changes it, STOPPED is
\* entered only by BL_reset or that ARMING tick, and a tick in CLOSED_LOOP
\* never changes it.
C10_Transitions ==
  /\ [][ (BL_opstate' # BL_opstate /\ Tick)
           => \/ << BL_opstate, BL_opstate' >> \in FwdEdges
              \/ /\ BL_opstate = "BL_ARMING"
                 /\ atimer = ARMING_TIME_TOTAL
                 /\ BL_opstate' = "BL_STOPPED" ]_vars
  /\ [][ BL_opstate' # BL_opstate => (Tick \/ BL_reset) ]_vars
  /\ [][ (BL_opstate' = "BL_STOPPED" /\ BL_opstate # "BL_STOPPED")
           => \/ BL_reset
              \/ BL_opstate = "BL_ARMING" /\ atimer = ARMING_TIME_TOTAL /\ Tick ]_vars
  /\ [][ (BL_opstate = "BL_CLS_LOOP" /\ Tick) => BL_opstate' = "BL_CLS_LOOP" ]_vars

\* CLOSED_LOOP kept by a tick made with the commanded speed at 0
C10_Witness ==
  /\ BL_opstate = "BL_CLS_LOOP"
  /\ BL_motor_speed = 0
  /\ pwm_dutycycle = 0
  /\ fault_status = {}

\* x is an element of the sequence sq
InSeq(x, sq) == \E i \in 1 .. Len(sq) : sq[i] = x

\* C11: a call of BL_Commutation_Step invokes the hold-sector-0 primitive
\* exactly when the operating state is ARMING or ALIGN, the advance-sector
\* primitive exactly when it is RAMPUP, OPEN_LOOP or CLOSED_LOOP, none when
\* it is STOPPED, NONE or an unrecognized value, and at most one primitive
\* in all.
C11_Dispatch ==
  (call.fn = "step" /\ call.n > 0)
    => /\ InSeq("Sequence_Step_0", call.prims)
            <=> call.opstate \in { "BL_ARMING", "BL_ALIGN" }
       /\ InSeq("Sequence_Step", call.prims)
            <=> call.opstate \in { "BL_RAMPUP", "BL_OPN_LOOP", "BL_CLS_LOOP" }
       /\ (call.opstate \notin { "BL_ARMING", "BL_ALIGN", "BL_RAMPUP",
                                 "BL_OPN_LOOP", "BL_CLS_LOOP" })
            => call.prims = << >>
       /\ Len(call.prims) <= 1

\* the dispatcher called a second time, with an unrecognized operating state
C11_Witness ==
  /\ call.fn = "step" /\ call.n = 2
  /\ call.opstate = "unrecognized_255"
  /\ call.prims = << >>
  /\ BL_opstate = "unrecognized_255"

\* C12: in every reachable state the commanded speed is 0 or above the
\* shutoff threshold, so BL_get_state answers RUNNING exactly when the
\* commanded speed is nonzero, whatever the operating state and the fault
\* status are.
C12_RunState ==
  /\ BL_motor_speed = 0 \/ BL_motor_speed > PWM_PD_SHUTOFF
  /\ BL_get_state = (IF BL_motor_speed # 0 THEN "BL_IS_RUNNING"
                     ELSE "BL_NOT_RUNNING")
  /\ BL_get_state \in { "BL_IS_RUNNING", "BL_NOT_RUNNING" }

\* the lowest running speed commanded while STOPPED, after a start
C12_Witness ==
  /\ BL_opstate = "BL_STOPPED"
  /\ BL_motor_speed = PWM_PD_SHUTOFF + 1
  /\ BL_get_state = "BL_IS_RUNNING"
  /\ fault_status = {}

\* C13: every step that performs the Stop action (the fault pre-step of a
\* tick, BL_set_speed with a value at or below the shutoff threshold,
\* BL_reset) leaves the commutation period at 0xFFFF.
C13_StopPeriod ==
  /\ [][ (fault_status # {} /\ Tick) => BL_comm_period' = 65535 ]_vars
  /\ [][ (\E v \in SpeedInputs : v <= PWM_PD_SHUTOFF /\ BL_set_speed(v))
           => BL_comm_period' = 65535 ]_vars
  /\ [][ BL_reset => BL_comm_period' = 65535 ]_vars

\* C14: every write of the speed setpoint by the background task
\* (BL_set_speed, and BL_reset by m_stop) is made with interrupts masked,
\* between disableInterrupts() and enableInterrupts(): no tick runs while
\* the task is inside, so no tick starts from a partially applied reset.
C14_CriticalSection ==
  /\ [](call.pc \in InsideCS => call.masked)
  /\ [][ (call'.pc # call.pc /\ BL_motor_speed' # BL_motor_speed)
           => call.masked /\ call'.masked ]_vars
  /\ [][ (call'.pc # call.pc
            /\ << BL_motor_speed, BL_comm_period, BL_opstate >>'
                 # << BL_motor_speed, BL_comm_period, BL_opstate >>)
           => call.pc \in InsideCS ]_vars
  /\ [][ (call' = call) => call.pc \notin InsideCS ]_vars
  /\ [](call.pc \in InsideReset => ~ENABLED TickISR)

\* BL_reset of m_stop half done on a running motor: speed and period reset,
\* the operating state still CLOSED_LOOP
C14_Witness ==
  /\ call.pc = "reset_faultm"
  /\ call.masked
  /\ BL_opstate = "BL_CLS_LOOP"
  /\ BL_motor_speed = 0
  /\ BL_comm_period = U16_MAX

\* C15: a tick in RAMPUP without fault ramps the period one step toward the
\* ramp-end constant and passes the rampup duty; it changes the state to
\* OPEN_LOOP on the tick whose ramped period reaches the ramp-end constant,
\* and keeps RAMPUP while the ramped period is above it.
C15_RampupExit ==
  [][ (BL_opstate = "BL_RAMPUP" /\ fault_status = {} /\ Tick)
        => /\ BL_comm_period' = RampClamped(BL_comm_period, BL_CT_RAMP_END)
           /\ pwm_dutycycle' = PWM_PD_RAMPUP
           /\ IF BL_comm_period' <= BL_CT_RAMP_END
              THEN BL_opstate' = "BL_OPN_LOOP"
              ELSE BL_opstate' = "BL_RAMPUP" ]_vars

\* C16: a tick in OPEN_LOOP without fault passes the startup duty and ramps
\* the period one step toward the startup constant, whether or not the
\* corrector accepts; it changes the state to CLOSED_LOOP exactly when the
\* corrector accepts, and then the period stored is the ramped period plus
\* error/10.
C16_OpenLoopTick ==
  [][ \A avail \in BOOLEAN, e \in ErrInputs :
        (BL_opstate = "BL_OPN_LOOP" /\ fault_status = {}
           /\ SampleOffered(avail, e) /\ BL_State_Ctrl(avail, e))
          => LET ramped == RampClamped(BL_comm_period, BL_CT_STARTUP)
                 accept == avail /\ -50 < e /\ e < 50
                 q == IF e >= 0 THEN e \div 10 ELSE -((-e) \div 10)
             IN  /\ pwm_dutycycle' = PWM_PD_STARTUP
                 /\ (BL_opstate' = "BL_CLS_LOOP") <=> accept
                 /\ (~accept) => BL_opstate' = "BL_OPN_LOOP"
                 /\ BL_comm_period' =
                      (IF accept THEN (ramped + q) % 65536 ELSE ramped) ]_vars

\* C17: on the forward path the period is set to the ramp-start constant on
\* STOPPED -> ALIGN; a RAMPUP tick never increases it and never takes it
\* below the ramp-end constant; an OPEN_LOOP tick without an accepted
\* correction never decreases it and never takes it above the startup
\* constant.
C17_MonotoneRamps ==
  /\ [][ (BL_opstate = "BL_STOPPED" /\ BL_opstate' = "BL_ALIGN")
           => BL_comm_period' = BL_CT_RAMP_START ]_vars
  /\ [][ (BL_opstate = "BL_RAMPUP" /\ Tick)
           => /\ BL_comm_period' <= BL_comm_period
              /\ BL_comm_period' >= BL_CT_RAMP_END ]_vars
  /\ [][ (BL_opstate = "BL_OPN_LOOP" /\ BL_opstate' = "BL_OPN_LOOP" /\ Tick)
           => /\ BL_comm_period' >= BL_comm_period
              /\ BL_comm_period' <= BL_CT_STARTUP ]_vars
  /\ [](BL_opstate = "BL_RAMPUP"
          => BL_comm_period \in BL_CT_RAMP_END .. BL_CT_RAMP_START)
  /\ [](BL_opstate = "BL_OPN_LOOP"
          => BL_comm_period \in BL_CT_RAMP_END .. BL_CT_STARTUP)

\* OPEN_LOOP with the ramp to the startup constant completed and no
\* correction accepted
C17_Witness ==
  /\ BL_opstate = "BL_OPN_LOOP"
  /\ BL_comm_period = BL_CT_STARTUP
  /\ pwm_dutycycle = PWM_PD_STARTUP
  /\ fault_status = {}

\* C18: a STOPPED tick without fault passes the commanded speed as duty and,
\* only when it is nonzero, enters ALIGN with the operation timer at
\* BL_TIME_ALIGN and the period at the ramp-start constant; an ALIGN tick
\* without fault passes the alignment duty and decrements the timer by one
\* while the timer is nonzero, and enters RAMPUP when it finds the timer at
\* zero; nothing else modifies the operation timer.
C18_StoppedAlign ==
  /\ [][ (BL_opstate = "BL_STOPPED" /\ fault_status = {} /\ Tick)
           => /\ pwm_dutycycle' = BL_motor_speed
              /\ IF BL_motor_speed # 0
                 THEN /\ BL_opstate' = "BL_ALIGN"
                      /\ BL_optimer' = BL_TIME_ALIGN
                      /\ BL_comm_period' = BL_CT_RAMP_START
                 ELSE /\ BL_opstate' = "BL_STOPPED"
                      /\ BL_optimer' = BL_optimer
                      /\ BL_comm_period' = BL_comm_period ]_vars
  /\ [][ (BL_opstate = "BL_ALIGN" /\ fault_status = {} /\ Tick)
           => IF BL_optimer # 0
              THEN /\ pwm_dutycycle' = PWM_PD_ALIGN
                   /\ BL_optimer' = BL_optimer - 1
                   /\ BL_opstate' = "BL_ALIGN"
              ELSE /\ BL_opstate' = "BL_RAMPUP"
                   /\ BL_optimer' = 0 ]_vars
  /\ [][ BL_optimer' # BL_optimer
           => /\ \/ BL_opstate = "BL_STOPPED" /\ BL_opstate' = "BL_ALIGN"
                 \/ BL_opstate = "BL_ALIGN"
              /\ fault_status = {}
              /\ Tick ]_vars
  /\ [](BL_opstate = "BL_ALIGN" => BL_optimer \in 0 .. BL_TIME_ALIGN)

\* ALIGN after its last tick with the alignment duty, entered again after a
\* closed-loop run that ended in the hysteresis fault and a reset
C18_Witness ==
  /\ BL_opstate = "BL_ALIGN"
  /\ BL_optimer = 0
  /\ pwm_dutycycle = PWM_PD_ALIGN
  /\ fault_counter = 0
  /\ fault_status = {}

\* C19: an ARMING tick without fault sets the period to 0x0010 (the tick
\* that resets then leaves the period of the reset) and passes a duty that
\* is the arming duty when the incremented arming timer t has
\* 0x0200 < t <= 0x0900 and (t & 0x01C0) = 0, and 0 on every other ARMING
\* tick, the tick of the reset included, whatever the commanded speed is.
C19_ArmingDuty ==
  [][ (BL_opstate = "BL_ARMING" /\ fault_status = {} /\ Tick)
        => LET t == atimer + 1
           IN  /\ atimer < 2304 => BL_comm_period' = 16
               /\ pwm_dutycycle' =
                    (IF atimer < 2304 /\ 512 < t /\ t <= 2304
                          /\ BitAnd(t, 448) = 0
                     THEN PWM_PD_ARMING ELSE 0) ]_vars

\* C20: an ARMING tick without fault keeps ARMING and counts the arming
\* timer up by one while the timer is below ARMING_TIME_TOTAL; the tick that
\* finds the timer at the total resets, leaving STOPPED, period 0xFFFF and
\* speed 0; with the control task running and no fault, ARMING is always
\* left for STOPPED; while a fault is active in ARMING the timer stands.
C20_ArmingEnds ==
  /\ [][ (BL_opstate = "BL_ARMING" /\ fault_status = {} /\ Tick)
           => IF atimer < 2304
              THEN BL_opstate' = "BL_ARMING" /\ atimer' = atimer + 1
              ELSE /\ BL_opstate' = "BL_STOPPED"
                   /\ BL_comm_period' = 65535
                   /\ BL_motor_speed' = 0
                   /\ atimer' = atimer ]_vars
  /\ [][ (BL_opstate = "BL_ARMING" /\ fault_status # {})
           => atimer' = atimer ]_vars
  /\ [](BL_opstate = "BL_ARMING" => atimer \in 0 .. 2304)
  /\ (BL_opstate = "BL_ARMING" /\ fault_status = {})
       ~> (BL_opstate = "BL_STOPPED" \/ fault_status # {})

\* STOPPED as the reset at the end of the arming time leaves it
C20_Witness ==
  /\ BL_opstate = "BL_STOPPED"
  /\ atimer = ARMING_TIME_TOTAL
  /\ BL_comm_period = U16_MAX
  /\ BL_motor_speed = 0
  /\ BL_optimer = 0
  /\ pwm_dutycycle = 0
  /\ fault_counter = CL_FAULT_CNTR
  /\ fault_status = {}

\* C21: a CLOSED_LOOP tick without fault passes the commanded speed as duty
\* (0 when it is 0), leaves operating state, commanded speed and operation
\* timer as they are, and changes the period only when the corrector
\* accepts, the new period then being the old one plus error/10.
C21_ClosedLoopTick ==
  [][ \A avail \in BOOLEAN, e \in ErrInputs :
        (BL_opstate = "BL_CLS_LOOP" /\ fault_status = {}
           /\ SampleOffered(avail, e) /\ BL_State_Ctrl(avail, e))
          => LET accept == avail /\ -50 < e /\ e < 50
                 q == IF e >= 0 THEN e \div 10 ELSE -((-e) \div 10)
             IN  /\ pwm_dutycycle' = BL_motor_speed
                 /\ (BL_motor_speed = 0 => pwm_dutycycle' = 0)
                 /\ BL_opstate' = "BL_CLS_LOOP"
                 /\ BL_motor_speed' = BL_motor_speed
                 /\ BL_optimer' = BL_optimer
                 /\ BL_comm_period' =
                      (IF accept THEN (BL_comm_period + q) % 65536
                       ELSE BL_comm_period) ]_vars

\* CLOSED_LOOP with a corrected period, the last tick a rejected one that
\* passed the commanded speed
C21_Witness ==
  /\ BL_opstate = "BL_CLS_LOOP"
  /\ BL_comm_period = BL_CT_STARTUP - 1
  /\ fault_counter = CL_FAULT_CNTR - 1
  /\ BL_motor_speed = PWM_PD_STARTUP + 1
  /\ pwm_dutycycle = PWM_PD_STARTUP + 1
  /\ fault_status = {}

\* C22: a tick made while a fault is active sets the commanded speed and the
\* duty to 0 and changes nothing else: operating state, period, operation
\* timer, arming timer and fault counter are left as they are, and the
\* fault status is not cleared.
C22_FaultTickFrame ==
  [][ (fault_status # {} /\ Tick)
        => /\ BL_motor_speed' = 0
           /\ pwm_dutycycle' = 0
           /\ << BL_opstate, BL_comm_period, BL_optimer, atimer, fault_counter >>'
                = << BL_opstate, BL_comm_period, BL_optimer, atimer, fault_counter >>
           /\ fault_status' = fault_status
           /\ fault_status' # {} ]_vars

\* ALIGN frozen half way by an outside fault, the tick of the fault pre-step
\* made: speed and duty 0, timer and period kept
C22_Witness ==
  /\ BL_opstate = "BL_ALIGN"
  /\ BL_optimer = 100
  /\ BL_comm_period = BL_CT_RAMP_START
  /\ fault_status = {"VOLTAGE_NG"}
  /\ BL_motor_speed = 0
  /\ pwm_dutycycle = 0

\* the shared variables, the duty command and the control task's position
\* and locals: everything but the record of the primitives invoked
shared ==
  << BL_opstate, BL_comm_period, BL_motor_speed, BL_optimer, fault_counter,
     atimer, fault_status, pwm_dutycycle, [ call EXCEPT !.prims = << >> ] >>

\* the steps of the system without commutation interrupts
NextNoInt == CtrlStatement \/ StartInt

\* C23: BL_Commutation_Step picks its primitive from the operating state
\* alone and writes none of operating state, period, commanded speed,
\* operation timer and fault counter, so with commutation interrupts between
\* any two statements of the control task the shared state and the duty
\* commands change exactly by the steps the system makes without them.
C23_NoInterference ==
  /\ [][ CommutationISR
           => /\ UNCHANGED shared
              /\ call'.prims = BL_Commutation_Step_calls(BL_opstate) ]_vars
  /\ [][ NextNoInt /\ call'.prims = call.prims ]_shared

\* a commutation interrupt taken inside the STOPPED tick that enters ALIGN,
\* between BL_set_opstate(BL_ALIGN) and the write of the operation timer
C23_Witness ==
  /\ call.fn = "BL_State_Ctrl"
  /\ call.pc = "stp_timer"
  /\ BL_opstate = "BL_ALIGN"
  /\ BL_optimer = 0
  /\ call.prims = << "Sequence_Step_0" >>

====
